---- MODULE Spec2Model ----
(***************************************************************************)
(* State-machine model of bc-vod-urls (src/main.go): the pipeline          *)
(*   generateToken -> getSessions -> generatePlaybackToken ->              *)
(*   generatePlaybackURL                                                   *)
(* over the shared transport helper doRequest, as driven by main.          *)
(*                                                                         *)
(* Go strings whose content the program inspects or splices into a URL are *)
(* sequences of characters; a character is a TLA+ string.  The platform,   *)
(* the network and the wall clock are the environment: their answers are   *)
(* drawn from small sets.                                                  *)
(***************************************************************************)
EXTENDS Integers, Sequences, FiniteSets, TLC

(***************************************************************************)
(* Bounds of the model.                                                    *)
(***************************************************************************)
\* Longest session list the platform returns.
MaxSessions == 2
\* Seconds the wall clock may advance while the run lasts.
MaxDrift == 1
\* Wall-clock second at which the run starts (2026-10-30T00:00:00Z).
Now0 == 1793318400

(***************************************************************************)
(* Program constants.                                                      *)
(***************************************************************************)
vodWindowDuration == 14
StatusOK == 200
manifestFormatHLS == "hls"

\* A control character: net/url refuses a URL that holds one.
CTL == "\\n"

(***************************************************************************)
(* strconv.Itoa: the decimal digits of n, with a leading "-" below zero.   *)
(***************************************************************************)
DigitChar == <<"0", "1", "2", "3", "4", "5", "6", "7", "8", "9">>

RECURSIVE Digits(_)
Digits(n) ==
    IF n < 10 THEN <<DigitChar[n + 1]>>
    ELSE Append(Digits(n \div 10), DigitChar[(n % 10) + 1])

Itoa(n) == IF n < 0 THEN <<"-">> \o Digits(-n) ELSE Digits(n)

(***************************************************************************)
(* strings.Split(s, "/"): the pieces of s between the separators; n        *)
(* separators give n + 1 pieces, empty pieces included.                    *)
(***************************************************************************)
RECURSIVE SplitFrom(_, _, _)
SplitFrom(s, k, cur) ==
    IF k > Len(s) THEN <<cur>>
    ELSE IF s[k] = "/" THEN <<cur>> \o SplitFrom(s, k + 1, <<>>)
    ELSE SplitFrom(s, k + 1, Append(cur, s[k]))

Split(s) == SplitFrom(s, 1, <<>>)

(***************************************************************************)
(* Time.  A time is a second count since the epoch and a nanosecond part.  *)
(***************************************************************************)
\* time.Unix(sec, 0)
Unix(sec) == [sec |-> sec, nsec |-> 0]

\* t.AddDate(0, 0, days) of a UTC time: whole days of 86400 seconds.
AddDays(t, days) == [sec |-> t.sec + days * 24 * 60 * 60, nsec |-> t.nsec]

\* t.Before(u)
Before(t, u) == t.sec < u.sec \/ (t.sec = u.sec /\ t.nsec < u.nsec)

\* OutOfWindow with the window counted in months (AddDate(0, -14, 0)).
OutOfWindowMonths(session, t) ==
    Before(Unix(session.EndTime), AddDays(t, -vodWindowDuration * 30))

\* OutOfWindow with the cutoff itself outside the window (!After for Before).
OutOfWindowInclusive(session, t) ==
    ~Before(AddDays(t, -vodWindowDuration), Unix(session.EndTime))

\* The condition of the window check: the session ended before now - 14 days.
OutOfWindow(session, t) ==
    Before(Unix(session.EndTime), AddDays(t, -vodWindowDuration))

(***************************************************************************)
(* The environment: what the platform, the network and the caller supply.  *)
(***************************************************************************)
\* A response body.  json says whether the bytes are a JSON object; the
\* other fields are the members the object holds (absent members are the
\* zero value, as encoding/json leaves them).
Body(json, text, access_token, sess, tok, u) ==
    [json |-> json, text |-> text, access_token |-> access_token,
     sessions |-> sess, token |-> tok, url |-> u]

\* Bytes that are no JSON: an error page, a truncated answer.
TextBody(text) == Body(FALSE, text, <<>>, <<>>, <<>>, <<>>)
\* The empty body, of a response whose body could not be read.
NoBody == TextBody("")

ErrorBodies == {TextBody("denied"), TextBody("unavailable")}

Statuses == {StatusOK, 201, 500}

\* Wall-clock readings of the run: in its first or its last second, on the
\* second or half a second past it.
ClockReadings ==
    [sec : {Now0, Now0 + MaxDrift}, nsec : {0, 500000000}]

\* now - 14 days at the first second of the run.
Cutoff0 == Now0 - vodWindowDuration * 24 * 60 * 60

\* End times the platform reports: live, long past, yesterday, and the
\* cutoff of the last second of the run.
EndTimes ==
    {0, Now0 - 20 * 24 * 60 * 60, Now0 - 24 * 60 * 60, Cutoff0 + MaxDrift}

\* (account id, resource id) pairs the platform reports for a session.
SessionIdents == {<<"A", "R">>, <<CTL, "Q">>}

Session(id, ident, start, end) ==
    [ID |-> id, ResourceID |-> <<ident[2]>>, AccountID |-> <<ident[1]>>,
     StartTime |-> start, EndTime |-> end]

SessionValues ==
    {Session(<<"s">>, ident, 1000, end) : ident \in SessionIdents, end \in EndTimes}

SessionLists ==
    UNION {[1 .. n -> SessionValues] : n \in 0 .. MaxSessions}

AuthBodies ==
    {Body(TRUE, "", <<"at">>, <<>>, <<>>, <<>>)} \cup ErrorBodies
SessionsBodies ==
    {Body(TRUE, "", <<>>, l, <<>>, <<>>) : l \in SessionLists} \cup ErrorBodies
TokenBodies ==
    {Body(TRUE, "", <<>>, <<>>, <<t>>, <<>>) : t \in {"t1", "t2", CTL}}
        \cup ErrorBodies
URLBodies ==
    {Body(TRUE, "", <<>>, <<>>, <<>>, <<u>>) : u \in {"u1", "u2"}}
        \cup ErrorBodies

\* Paths of the playback reference, as url.Parse yields them.
Paths ==
    { <<"/", "R", "/", "x", "/", "A", "/", "j", "/", "p">>,
      <<"/", "R", "/", "x", "/", "A", "/", "j">>,
      <<"R", "/", "x", "/", "A", "/", "j", "/", "p">>,
      <<"/", "/", "x", "/", "/", "j", "/", "p", "/", "q">>,
      <<"/", CTL, "/", "x", "/", "A", "/", "j", "/", "p">>,
      <<>> }

\* url.Parse(playbackURL): an error, or a URL of which the program reads
\* the Path.
PlaybackReferences ==
    {[err |-> TRUE, Path |-> <<>>]} \cup {[err |-> FALSE, Path |-> p] : p \in Paths}

(***************************************************************************)
(* State.                                                                  *)
(***************************************************************************)
VARIABLES
    playbackURL,     \* main: the playback reference given on the command line
    pc,              \* position of the program
    rq,              \* position inside doRequest: "none", "do", "read", "ret"
    now,             \* the last reading of the wall clock
    requests,        \* every request handed to client.Do, in order
    replies,         \* what client.Do returned for each of them, in order
    inflight,        \* requests handed to client.Do that have not returned
    openBodies,      \* response bodies obtained and not yet closed
    resp,            \* doRequest: the response client.Do returned
    ret,             \* doRequest: its return value (body, err)
    token,           \* main: token.AccessToken
    sessions,        \* main: sessions.Events
    resourceID,      \* main: resourceID
    playbackTokens,  \* main: playbackTokens
    playbackURLs,    \* main: playbackURLs
    mintURL,         \* generatePlaybackToken: url
    mintIdx,         \* generatePlaybackToken: index of the range loop
    mintAcc,         \* generatePlaybackToken: playbackTokens
    resIdx,          \* generatePlaybackURL: index of the range loop
    resAcc,          \* generatePlaybackURL: playbackURLs
    stdout,          \* lines written to standard output
    stderr,          \* lines logged to standard error
    exitCode         \* exit status of the process, -1 while it runs

vars ==
    <<playbackURL, pc, rq, now, requests, replies, inflight, openBodies, resp, ret,
      token, sessions, resourceID, playbackTokens, playbackURLs, mintURL,
      mintIdx, mintAcc, resIdx, resAcc, stdout, stderr, exitCode>>

\* The variables of main and of the two loops.
data ==
    <<token, sessions, resourceID, playbackTokens, playbackURLs, mintURL,
      mintIdx, mintAcc, resIdx, resAcc>>

(***************************************************************************)
(* Errors.  An error is its kind and what its message embeds.              *)
(***************************************************************************)
Error(kind, status, body, resource) ==
    [kind |-> kind, status |-> status, body |-> body, resource |-> resource]

Err(kind) == Error(kind, 0, NoBody, <<>>)
Nil == Err("nil")

ErrFraming == Err("error framing request")
ErrResponse == Err("error getting response")
ErrReading == Err("error reading body")
ErrDecoding == Err("error decoding body")
ErrParsing == Err("error parsing playbackURL")
ErrMalformed == Err("malformed playback URL provided")
ErrNoEvents == Err("no events in session, quitting")
ErrNoValid == Err("no valid sessions to continue")
ErrLive(resource) == Error("ongoing live session", 0, NoBody, resource)
ErrStatus(status, body) == Error("received error from API", status, body, <<>>)

NoResp == [status |-> 0, body |-> NoBody, readOK |-> TRUE]
NoRet == [body |-> NoBody, err |-> Nil]

(***************************************************************************)
(* Requests.                                                               *)
(***************************************************************************)
Request(stage, method, url, auth, payload, idx) ==
    [stage |-> stage, method |-> method, url |-> url, auth |-> auth,
     payload |-> payload, idx |-> idx]

\* http.NewRequest fails on a URL that holds a control character.
NewRequestOK(req) == \A k \in 1 .. Len(req.url) : CTL \notin {req.url[k][c] : c \in 1 .. Len(req.url[k])}

Init ==
    /\ playbackURL \in PlaybackReferences
    /\ pc = "generateToken"
    /\ rq = "none"
    /\ now = [sec |-> Now0, nsec |-> 0]
    /\ requests = <<>>
    /\ replies = <<>>
    /\ inflight = 0
    /\ openBodies = 0
    /\ resp = NoResp
    /\ ret = NoRet
    /\ token = <<>>
    /\ sessions = <<>>
    /\ resourceID = <<>>
    /\ playbackTokens = <<>>
    /\ playbackURLs = <<>>
    /\ mintURL = <<>>
    /\ mintIdx = 0
    /\ mintAcc = <<>>
    /\ resIdx = 0
    /\ resAcc = <<>>
    /\ stdout = <<>>
    /\ stderr = <<>>
    /\ exitCode = -1

(***************************************************************************)
(* doRequest, the transport helper.                                        *)
(***************************************************************************)
\* doRequest up to the call of client.Do: the request is framed and handed
\* to the client, or framing fails and doRequest returns at once.
DoRequestCall(req) ==
    /\ IF NewRequestOK(req)
       THEN /\ rq' = "do"
            /\ requests' = Append(requests, req)
            /\ inflight' = inflight + 1
            /\ ret' = NoRet
       ELSE /\ rq' = "ret"
            /\ ret' = [body |-> NoBody, err |-> ErrFraming]
            /\ UNCHANGED <<requests, inflight>>
    /\ UNCHANGED <<resp, openBodies, replies>>

\* The bodies the platform may answer a request of a stage with.
StageBodies(stage) ==
    CASE stage = "generateToken" -> AuthBodies
      [] stage = "getSessions" -> SessionsBodies
      [] stage = "generatePlaybackToken" -> TokenBodies
      [] stage = "generatePlaybackURL" -> URLBodies

\* The responses to a request of a stage: any status with any body, read
\* in full, or a body whose reading breaks off.
Responses(stage) ==
    [status : Statuses, body : StageBodies(stage), readOK : {TRUE}]
        \cup [status : Statuses, body : {TextBody("denied")}, readOK : {FALSE}]

\* The record of what client.Do returned: a transport error, or a response.
TransportFailure ==
    [failed |-> TRUE, status |-> 0, body |-> NoBody, readOK |-> FALSE]
Reply(r) ==
    [failed |-> FALSE, status |-> r.status, body |-> r.body, readOK |-> r.readOK]

\* client.Do returns: a transport error (connection, DNS, timeout), or a
\* response whose body is open.
ClientDo ==
    /\ rq = "do"
    /\ inflight' = inflight - 1
    /\ \/ /\ rq' = "ret"
          /\ ret' = [body |-> NoBody, err |-> ErrResponse]
          /\ replies' = Append(replies, TransportFailure)
          /\ UNCHANGED <<resp, openBodies>>
       \/ \E r \in Responses(requests[Len(requests)].stage) :
             /\ rq' = "read"
             /\ resp' = r
             /\ replies' = Append(replies, Reply(r))
             /\ openBodies' = openBodies + 1
             /\ UNCHANGED ret
    /\ UNCHANGED <<playbackURL, pc, now, requests, data, stdout, stderr, exitCode>>

\* DoRequestResult without the status check.
DoRequestResultNoStatus(r) ==
    IF ~r.readOK THEN [body |-> NoBody, err |-> ErrReading]
    ELSE [body |-> r.body, err |-> Nil]

\* What doRequest returns for a response: io.ReadAll, then the status check.
DoRequestResult(r) ==
    IF ~r.readOK THEN [body |-> NoBody, err |-> ErrReading]
    ELSE IF r.status # StatusOK
         THEN [body |-> NoBody, err |-> ErrStatus(r.status, r.body)]
         ELSE [body |-> r.body, err |-> Nil]

\* ReadBody with the Close at the end of the function instead of deferred:
\* the error returns leave the body open.
ReadBodyCloseOnSuccess ==
    /\ rq = "read"
    /\ ret' = DoRequestResult(resp)
    /\ openBodies' = IF DoRequestResult(resp).err = Nil
                     THEN openBodies - 1
                     ELSE openBodies
    /\ resp' = NoResp
    /\ rq' = "ret"
    /\ UNCHANGED <<playbackURL, pc, now, requests, replies, inflight, data, stdout,
                   stderr, exitCode>>

\* doRequest from io.ReadAll to its return; the deferred Close runs on the
\* way out.
ReadBody ==
    /\ rq = "read"
    /\ ret' = DoRequestResult(resp)
    /\ openBodies' = openBodies - 1
    /\ resp' = NoResp
    /\ rq' = "ret"
    /\ UNCHANGED <<playbackURL, pc, now, requests, replies, inflight, data, stdout,
                   stderr, exitCode>>

(***************************************************************************)
(* main's handling of a stage's error: log it, os.Exit(1).  The frames of  *)
(* the stage are gone.                                                     *)
(***************************************************************************)
\* Fail with the os.Exit(1) after generatePlaybackToken left out: main logs
\* the error and goes on to generatePlaybackURL with the nil token list.
FailNoExit(stage, err) ==
    /\ stderr' = Append(stderr, [stage |-> stage, err |-> err])
    /\ IF stage = "generatePlaybackToken"
       THEN pc' = "resolveLoop" /\ resIdx' = 1 /\ UNCHANGED exitCode
       ELSE pc' = "exit" /\ resIdx' = 0 /\ exitCode' = 1
    /\ rq' = "none"
    /\ ret' = NoRet
    /\ mintURL' = <<>>
    /\ mintIdx' = 0
    /\ mintAcc' = <<>>
    /\ resAcc' = <<>>
    /\ UNCHANGED <<playbackURL, now, resp, openBodies, token, sessions,
                   resourceID, playbackTokens, playbackURLs, stdout>>

Fail(stage, err) ==
    /\ pc' = "exit"
    /\ exitCode' = 1
    /\ stderr' = Append(stderr, [stage |-> stage, err |-> err])
    /\ rq' = "none"
    /\ ret' = NoRet
    /\ mintURL' = <<>>
    /\ mintIdx' = 0
    /\ mintAcc' = <<>>
    /\ resIdx' = 0
    /\ resAcc' = <<>>
    /\ UNCHANGED <<playbackURL, now, resp, openBodies, token, sessions,
                   resourceID, playbackTokens, playbackURLs, stdout>>

\* json.Unmarshal of a body: an error unless the bytes are a JSON object.
UnmarshalOK(body) == body.json

(***************************************************************************)
(* generateToken                                                           *)
(***************************************************************************)
GenerateTokenCall ==
    /\ pc = "generateToken"
    /\ rq = "none"
    /\ DoRequestCall(Request("generateToken", "POST",
                             <<<<"https://oauth.brightcove.com/v4/access_token">>>>,
                             <<"Basic">>,
                             << <<"grant_type", <<"client_credentials">> >> >>, 0))
    /\ UNCHANGED <<playbackURL, pc, now, data, stdout, stderr, exitCode>>

GenerateTokenReturn ==
    /\ pc = "generateToken"
    /\ rq = "ret"
    /\ IF ret.err # Nil
       THEN Fail("generateToken", ret.err) /\ UNCHANGED <<requests, replies, inflight>>
       ELSE IF ~UnmarshalOK(ret.body)
       THEN Fail("generateToken", ErrDecoding) /\ UNCHANGED <<requests, replies, inflight>>
       ELSE /\ token' = ret.body.access_token
            /\ pc' = "getSessions"
            /\ rq' = "none"
            /\ ret' = NoRet
            /\ UNCHANGED <<playbackURL, now, requests, replies, inflight, openBodies,
                           resp, sessions, resourceID, playbackTokens,
                           playbackURLs, mintURL, mintIdx, mintAcc, resIdx,
                           resAcc, stdout, stderr, exitCode>>

(***************************************************************************)
(* getSessions                                                             *)
(***************************************************************************)
\* pathParts := strings.Split(parsedURL.Path, "/")
PathParts(ref) == Split(ref.Path)

\* Malformed with the bound one too low.
MalformedOffByOne(pathParts) == Len(pathParts) < 5

\* The length check on pathParts.
Malformed(pathParts) == Len(pathParts) < 6

\* pathParts[1] and pathParts[3]; Go counts from 0.
PathResourceID(pathParts) == pathParts[2]
PathAccountID(pathParts) == pathParts[4]

SessionsURL(pathParts) ==
    <<<<"https://api.live.brightcove.com/v2/accounts/">>, PathAccountID(pathParts),
      <<"/sessions/resource/">>, PathResourceID(pathParts)>>

GetSessionsCall ==
    /\ pc = "getSessions"
    /\ rq = "none"
    /\ IF playbackURL.err
       THEN Fail("getSessions", ErrParsing) /\ UNCHANGED <<requests, replies, inflight>>
       ELSE IF Malformed(PathParts(playbackURL))
       THEN Fail("getSessions", ErrMalformed) /\ UNCHANGED <<requests, replies, inflight>>
       ELSE /\ DoRequestCall(Request("getSessions", "GET",
                                     SessionsURL(PathParts(playbackURL)),
                                     <<"Bearer", token>>, <<>>, 0))
            /\ UNCHANGED <<playbackURL, pc, now, data, stdout, stderr, exitCode>>

GetSessionsReturn ==
    /\ pc = "getSessions"
    /\ rq = "ret"
    /\ IF ret.err # Nil
       THEN Fail("getSessions", ret.err) /\ UNCHANGED <<requests, replies, inflight>>
       ELSE IF ~UnmarshalOK(ret.body)
       THEN Fail("getSessions", ErrDecoding) /\ UNCHANGED <<requests, replies, inflight>>
       ELSE /\ sessions' = ret.body.sessions
            /\ resourceID' = PathResourceID(PathParts(playbackURL))
            /\ pc' = "generatePlaybackToken"
            /\ rq' = "none"
            /\ ret' = NoRet
            /\ UNCHANGED <<playbackURL, now, requests, replies, inflight, openBodies,
                           resp, token, playbackTokens, playbackURLs, mintURL,
                           mintIdx, mintAcc, resIdx, resAcc, stdout, stderr,
                           exitCode>>

(***************************************************************************)
(* generatePlaybackToken                                                   *)
(***************************************************************************)
\* The live check: some session has EndTime == 0.
IsLive(session) == session.EndTime = 0
\* AnyLive looking at sessions.Events[0] alone.
AnyLiveFirst(events) == IsLive(events[1])

AnyLive(events) == \E k \in 1 .. Len(events) : IsLive(events[k])

\* The first live session, the one the error names.
FirstLive(events) ==
    CHOOSE k \in 1 .. Len(events) :
        IsLive(events[k]) /\ \A m \in 1 .. k - 1 : ~IsLive(events[m])

\* MintURL from the last session of the list instead of the first.
MintURLLast(events) ==
    <<<<"https://api.live.brightcove.com/v2/accounts/">>,
      events[Len(events)].AccountID, <<"/playback/">>,
      events[Len(events)].ResourceID, <<"/token">>>>

\* The minting endpoint, from sessions.Events[0].
MintURL(events) ==
    <<<<"https://api.live.brightcove.com/v2/accounts/">>, events[1].AccountID,
      <<"/playback/">>, events[1].ResourceID, <<"/token">>>>

\* The JSON body of a minting request.
MintPayload(session) ==
    << <<"start_time", Itoa(session.StartTime)>>,
       <<"end_time", Itoa(session.EndTime)>>,
       <<"manifest_format", <<manifestFormatHLS>> >> >>

\* GeneratePlaybackTokenEntry with an empty list taken as zero results:
\* an empty token list is returned without an error.
GeneratePlaybackTokenEntryEmptyOK ==
    /\ pc = "generatePlaybackToken"
    /\ rq = "none"
    /\ IF Len(sessions) = 0
       THEN /\ resIdx' = 1
            /\ resAcc' = <<>>
            /\ pc' = "resolveLoop"
            /\ UNCHANGED <<playbackURL, rq, now, openBodies, resp, ret, token,
                           sessions, resourceID, playbackTokens, playbackURLs,
                           mintURL, mintIdx, mintAcc, stdout, stderr, exitCode>>
       ELSE IF AnyLive(sessions)
       THEN Fail("generatePlaybackToken",
                 ErrLive(sessions[FirstLive(sessions)].ResourceID))
       ELSE /\ mintURL' = MintURL(sessions)
            /\ mintIdx' = 1
            /\ mintAcc' = <<>>
            /\ pc' = "mintLoop"
            /\ UNCHANGED <<playbackURL, rq, now, openBodies, resp, ret, token,
                           sessions, resourceID, playbackTokens, playbackURLs,
                           resIdx, resAcc, stdout, stderr, exitCode>>
    /\ UNCHANGED <<requests, replies, inflight>>

\* Function entry: the empty check, the live check, the endpoint.
GeneratePlaybackTokenEntry ==
    /\ pc = "generatePlaybackToken"
    /\ rq = "none"
    /\ IF Len(sessions) = 0
       THEN Fail("generatePlaybackToken", ErrNoEvents)
       ELSE IF AnyLive(sessions)
       THEN Fail("generatePlaybackToken",
                 ErrLive(sessions[FirstLive(sessions)].ResourceID))
       ELSE /\ mintURL' = MintURL(sessions)
            /\ mintIdx' = 1
            /\ mintAcc' = <<>>
            /\ pc' = "mintLoop"
            /\ UNCHANGED <<playbackURL, rq, now, openBodies, resp, ret, token,
                           sessions, resourceID, playbackTokens, playbackURLs,
                           resIdx, resAcc, stdout, stderr, exitCode>>
    /\ UNCHANGED <<requests, replies, inflight>>

\* One iteration of the loop over the sessions, up to the request: the
\* clock is read, the session is skipped or its token is asked for.
MintNext ==
    /\ pc = "mintLoop"
    /\ rq = "none"
    /\ mintIdx <= Len(sessions)
    /\ \E t \in ClockReadings :
          /\ ~Before(t, now)
          /\ now' = t
          /\ IF OutOfWindow(sessions[mintIdx], t)
             THEN /\ stdout' = Append(stdout,
                        [kind |-> "skip", n |-> sessions[mintIdx].EndTime,
                         text |-> sessions[mintIdx].ID])
                  /\ mintIdx' = mintIdx + 1
                  /\ UNCHANGED <<rq, requests, replies, inflight, resp, ret, openBodies>>
             ELSE /\ DoRequestCall(Request("generatePlaybackToken", "POST",
                                           mintURL, <<"Bearer", token>>,
                                           MintPayload(sessions[mintIdx]),
                                           mintIdx))
                  /\ UNCHANGED <<stdout, mintIdx>>
    /\ UNCHANGED <<playbackURL, pc, token, sessions, resourceID, playbackTokens,
                   playbackURLs, mintURL, mintAcc, resIdx, resAcc, stderr,
                   exitCode>>

\* MintReturn with a failed session passed over instead of ending the call.
MintReturnSkipFailed ==
    /\ pc = "mintLoop"
    /\ rq = "ret"
    /\ mintAcc' = IF ret.err # Nil \/ ~UnmarshalOK(ret.body)
                  THEN mintAcc
                  ELSE Append(mintAcc, [Token |-> ret.body.token])
    /\ mintIdx' = mintIdx + 1
    /\ rq' = "none"
    /\ ret' = NoRet
    /\ UNCHANGED <<playbackURL, pc, now, openBodies, resp, token, sessions,
                   resourceID, playbackTokens, playbackURLs, mintURL, resIdx,
                   resAcc, stdout, stderr, exitCode>>
    /\ UNCHANGED <<requests, replies, inflight>>

\* MintReturn that asks again for the token of a session whose request
\* failed, instead of ending the call.
MintReturnRetry ==
    /\ pc = "mintLoop"
    /\ rq = "ret"
    /\ IF ret.err # Nil \/ ~UnmarshalOK(ret.body)
       THEN UNCHANGED <<mintAcc, mintIdx>>
       ELSE /\ mintAcc' = Append(mintAcc, [Token |-> ret.body.token])
            /\ mintIdx' = mintIdx + 1
    /\ rq' = "none"
    /\ ret' = NoRet
    /\ UNCHANGED <<playbackURL, pc, now, openBodies, resp, token, sessions,
                   resourceID, playbackTokens, playbackURLs, mintURL, resIdx,
                   resAcc, stdout, stderr, exitCode>>
    /\ UNCHANGED <<requests, replies, inflight>>

\* The rest of the iteration, once doRequest has returned.
MintReturn ==
    /\ pc = "mintLoop"
    /\ rq = "ret"
    /\ IF ret.err # Nil
       THEN Fail("generatePlaybackToken", ret.err)
       ELSE IF ~UnmarshalOK(ret.body)
       THEN Fail("generatePlaybackToken", ErrDecoding)
       ELSE /\ mintAcc' = Append(mintAcc, [Token |-> ret.body.token])
            /\ mintIdx' = mintIdx + 1
            /\ rq' = "none"
            /\ ret' = NoRet
            /\ UNCHANGED <<playbackURL, pc, now, openBodies, resp, token,
                           sessions, resourceID, playbackTokens, playbackURLs,
                           mintURL, resIdx, resAcc, stdout, stderr, exitCode>>
    /\ UNCHANGED <<requests, replies, inflight>>

\* After the loop: the empty-result check, the return to main, and the
\* entry of generatePlaybackURL.
MintEnd ==
    /\ pc = "mintLoop"
    /\ rq = "none"
    /\ mintIdx > Len(sessions)
    /\ IF Len(mintAcc) = 0
       THEN Fail("generatePlaybackToken", ErrNoValid)
       ELSE /\ playbackTokens' = mintAcc
            /\ mintURL' = <<>>
            /\ mintIdx' = 0
            /\ mintAcc' = <<>>
            /\ resIdx' = 1
            /\ resAcc' = <<>>
            /\ pc' = "resolveLoop"
            /\ UNCHANGED <<playbackURL, rq, now, openBodies, resp, ret, token,
                           sessions, resourceID, playbackURLs, stdout, stderr,
                           exitCode>>
    /\ UNCHANGED <<requests, replies, inflight>>

(***************************************************************************)
(* generatePlaybackURL                                                     *)
(***************************************************************************)
\* ResolveURL with the first token of the list for every request.
ResolveURLFirstToken(resource, tok) ==
    <<<<"https://api.live.brightcove.com/v2/playback/">>, resource,
      <<"?pt=">>, playbackTokens[1].Token>>

ResolveURL(resource, tok) ==
    <<<<"https://api.live.brightcove.com/v2/playback/">>, resource,
      <<"?pt=">>, tok.Token>>

\* ResolveNext walking the token list from its end.
ResolveNextReversed ==
    /\ pc = "resolveLoop"
    /\ rq = "none"
    /\ resIdx <= Len(playbackTokens)
    /\ DoRequestCall(Request("generatePlaybackURL", "GET",
                             ResolveURL(resourceID,
                                 playbackTokens[Len(playbackTokens) - resIdx + 1]),
                             <<>>, <<>>, resIdx))
    /\ UNCHANGED <<playbackURL, pc, now, data, stdout, stderr, exitCode>>

ResolveNext ==
    /\ pc = "resolveLoop"
    /\ rq = "none"
    /\ resIdx <= Len(playbackTokens)
    /\ DoRequestCall(Request("generatePlaybackURL", "GET",
                             ResolveURL(resourceID, playbackTokens[resIdx]),
                             <<>>, <<>>, resIdx))
    /\ UNCHANGED <<playbackURL, pc, now, data, stdout, stderr, exitCode>>

\* ResolveReturn handing back the URLs resolved so far when a request fails.
ResolveReturnPartial ==
    /\ pc = "resolveLoop"
    /\ rq = "ret"
    /\ IF ret.err # Nil \/ ~UnmarshalOK(ret.body)
       THEN /\ playbackURLs' = resAcc
            /\ resAcc' = <<>>
            /\ resIdx' = 0
            /\ pc' = "print"
       ELSE /\ resAcc' = Append(resAcc, [URL |-> ret.body.url])
            /\ resIdx' = resIdx + 1
            /\ UNCHANGED <<pc, playbackURLs>>
    /\ rq' = "none"
    /\ ret' = NoRet
    /\ UNCHANGED <<playbackURL, now, openBodies, resp, token, sessions,
                   resourceID, playbackTokens, mintURL, mintIdx, mintAcc,
                   stdout, stderr, exitCode>>
    /\ UNCHANGED <<requests, replies, inflight>>

ResolveReturn ==
    /\ pc = "resolveLoop"
    /\ rq = "ret"
    /\ IF ret.err # Nil
       THEN Fail("generatePlaybackURL", ret.err)
       ELSE IF ~UnmarshalOK(ret.body)
       THEN Fail("generatePlaybackURL", ErrDecoding)
       ELSE /\ resAcc' = Append(resAcc, [URL |-> ret.body.url])
            /\ resIdx' = resIdx + 1
            /\ rq' = "none"
            /\ ret' = NoRet
            /\ UNCHANGED <<playbackURL, pc, now, openBodies, resp, token,
                           sessions, resourceID, playbackTokens, playbackURLs,
                           mintURL, mintIdx, mintAcc, stdout, stderr, exitCode>>
    /\ UNCHANGED <<requests, replies, inflight>>

\* After the loop: the return to main.
ResolveEnd ==
    /\ pc = "resolveLoop"
    /\ rq = "none"
    /\ resIdx > Len(playbackTokens)
    /\ playbackURLs' = resAcc
    /\ resIdx' = 0
    /\ resAcc' = <<>>
    /\ pc' = "print"
    /\ UNCHANGED <<playbackURL, rq, now, requests, replies, inflight, openBodies, resp,
                   ret, token, sessions, resourceID, playbackTokens, mintURL,
                   mintIdx, mintAcc, stdout, stderr, exitCode>>

(***************************************************************************)
(* main: the output loop and the normal end of the process.                *)
(***************************************************************************)
\* URLLines walking the list from its end.
URLLinesReversed(urls) ==
    [k \in 1 .. Len(urls) |->
        [kind |-> "url", n |-> k - 1, text |-> urls[Len(urls) - k + 1].URL]]

URLLines(urls) ==
    [k \in 1 .. Len(urls) |-> [kind |-> "url", n |-> k - 1, text |-> urls[k].URL]]

PrintURLs ==
    /\ pc = "print"
    /\ stdout' = stdout \o URLLines(playbackURLs)
    /\ pc' = "exit"
    /\ exitCode' = 0
    /\ UNCHANGED <<playbackURL, rq, now, requests, replies, inflight, openBodies, resp,
                   ret, data, stderr>>

Next ==
    \/ GenerateTokenCall
    \/ GenerateTokenReturn
    \/ GetSessionsCall
    \/ GetSessionsReturn
    \/ GeneratePlaybackTokenEntry
    \/ MintNext
    \/ MintReturn
    \/ MintEnd
    \/ ResolveNext
    \/ ResolveReturn
    \/ ResolveEnd
    \/ PrintURLs
    \/ ClientDo
    \/ ReadBody

Spec == Init /\ [][Next]_vars

\* The program is one sequential process that runs on while it has a step
\* to take, and client.Do returns within the client's timeout.
FairSpec == Spec /\ WF_vars(Next)

TypeOK ==
    /\ pc \in {"generateToken", "getSessions", "generatePlaybackToken",
               "mintLoop", "resolveLoop", "print", "exit"}
    /\ rq \in {"none", "do", "read", "ret"}
    /\ inflight \in 0 .. 1
    /\ openBodies \in 0 .. 1
    /\ exitCode \in {-1, 0, 1}

(***************************************************************************)
(* Vocabulary of the properties.                                           *)
(***************************************************************************)
\* The positions in the request log of the requests of a stage, in order.
RECURSIVE Positions(_, _)
Positions(stage, k) ==
    IF k > Len(requests) THEN <<>>
    ELSE IF requests[k].stage = stage
         THEN <<k>> \o Positions(stage, k + 1)
         ELSE Positions(stage, k + 1)

MintPos == Positions("generatePlaybackToken", 1)
ResolvePos == Positions("generatePlaybackURL", 1)
NumRequests(stage) == Len(Positions(stage, 1))

\* The URL lines and the skip notices on standard output, in order.
RECURSIVE Lines(_, _)
Lines(kind, k) ==
    IF k > Len(stdout) THEN <<>>
    ELSE IF stdout[k].kind = kind
         THEN <<stdout[k]>> \o Lines(kind, k + 1)
         ELSE Lines(kind, k + 1)

URLOutput == Lines("url", 1)
SkipNotices == Lines("skip", 1)

\* The process has ended in failure on an error of this kind of this stage.
FailedWith(stage, kind) ==
    /\ pc = "exit"
    /\ exitCode = 1
    /\ Len(stderr) = 1
    /\ stderr[1].stage = stage
    /\ stderr[1].err.kind = kind

\* The cutoff of the 14-day window in seconds, for a clock reading.
WindowSeconds == 14 * 24 * 60 * 60
\* endTime is not earlier than (reading - 14 days).
NotEarlierThanCutoff(endTime, t) ==
    \/ endTime > t.sec - WindowSeconds
    \/ endTime = t.sec - WindowSeconds /\ t.nsec = 0

HasLiveSession == \E k \in DOMAIN sessions : sessions[k].EndTime = 0

(***************************************************************************)
(* C1: whenever the session list holds a session with endTime = 0, at any  *)
(* position and whatever the other end times, no minting request (and no   *)
(* resolution request) is ever issued, and once generatePlaybackToken has  *)
(* run the process has failed with the ongoing-live-session error, naming  *)
(* the resource of a live session, with no token list returned.            *)
(***************************************************************************)
C1_LiveGate ==
    HasLiveSession =>
        /\ NumRequests("generatePlaybackToken") = 0
        /\ NumRequests("generatePlaybackURL") = 0
        /\ playbackTokens = <<>>
        /\ pc \in {"generatePlaybackToken", "exit"}
        /\ pc = "exit" =>
              /\ FailedWith("generatePlaybackToken", "ongoing live session")
              /\ \E k \in DOMAIN sessions :
                    /\ sessions[k].EndTime = 0
                    /\ stderr[1].err.resource = sessions[k].ResourceID

\* The live session is the second one, after a session that ended yesterday.
C1_Witness ==
    /\ Len(sessions) = 2
    /\ sessions[1].EndTime = Now0 - 24 * 60 * 60
    /\ sessions[2].EndTime = 0
    /\ FailedWith("generatePlaybackToken", "ongoing live session")

(***************************************************************************)
(* C2: whenever the session list is non-empty, holds no live session and   *)
(* every end time is strictly older than 14 days before the start of the   *)
(* run (hence before every later reading of the clock), no minting request *)
(* is ever issued, and once the loop over the sessions is over the process *)
(* has failed with the no-valid-sessions error.                            *)
(***************************************************************************)
AllSessionsOld ==
    /\ Len(sessions) > 0
    /\ \A k \in DOMAIN sessions :
          /\ sessions[k].EndTime # 0
          /\ sessions[k].EndTime < Now0 - WindowSeconds

C2_AllOutOfWindow ==
    AllSessionsOld =>
        /\ NumRequests("generatePlaybackToken") = 0
        /\ NumRequests("generatePlaybackURL") = 0
        /\ playbackTokens = <<>>
        /\ pc \in {"generatePlaybackToken", "mintLoop", "exit"}
        /\ pc = "exit" =>
              FailedWith("generatePlaybackToken", "no valid sessions to continue")

C2_Witness ==
    /\ AllSessionsOld
    /\ Len(sessions) = 2
    /\ Len(SkipNotices) = 2
    /\ FailedWith("generatePlaybackToken", "no valid sessions to continue")

(***************************************************************************)
(* C3: with no live session, each session is examined once, in list order: *)
(* if its endTime is not earlier than (the clock reading of that moment    *)
(* minus 14 days), the cutoff itself included, one minting request is      *)
(* issued for it (unless the request cannot even be framed, which is a     *)
(* failed request); otherwise none is issued and the loop goes on without  *)
(* an error.  When generatePlaybackToken returns a token list, the list    *)
(* holds the token of each minting request's reply, in request order, and  *)
(* every other session was skipped; the no-valid-sessions error arises     *)
(* only when no request was issued.                                        *)
(***************************************************************************)
C3_Examine ==
    (pc = "mintLoop" /\ rq = "none" /\ mintIdx <= Len(sessions)) =>
        IF NotEarlierThanCutoff(sessions[mintIdx].EndTime, now')
        THEN \/ /\ requests' = Append(requests, requests'[Len(requests')])
                /\ requests'[Len(requests')].stage = "generatePlaybackToken"
                /\ requests'[Len(requests')].idx = mintIdx
                /\ rq' = "do"
                /\ stdout' = stdout
             \/ /\ requests' = requests
                /\ rq' = "ret"
                /\ ret'.err.kind = "error framing request"
        ELSE /\ requests' = requests
             /\ mintIdx' = mintIdx + 1
             /\ pc' = "mintLoop"
             /\ rq' = "none"
             /\ stderr' = stderr
             /\ Len(stdout') = Len(stdout) + 1

C3_Result ==
    LET mp == MintPos IN
    /\ \A a, b \in DOMAIN mp :
          a < b => requests[mp[a]].idx < requests[mp[b]].idx
    /\ playbackTokens # <<>> =>
          /\ Len(playbackTokens) = Len(mp)
          /\ \A k \in DOMAIN playbackTokens :
                playbackTokens[k].Token = replies[mp[k]].body.token
          /\ Len(SkipNotices) = Len(sessions) - Len(mp)
    /\ FailedWith("generatePlaybackToken", "no valid sessions to continue") =>
          Len(mp) = 0

\* C3: every examination of a session mints it exactly when its endTime is
\* not earlier than the cutoff of that moment, and the returned token list
\* is the replies to the minting requests, in order.
C3_Minting == [][C3_Examine]_vars /\ []C3_Result

\* The session list of the spec's example with the second session ending
\* exactly at the cutoff: the first is skipped, the second is minted.
C3_Witness ==
    /\ pc = "resolveLoop"
    /\ Len(sessions) = 2
    /\ sessions[1].EndTime = Now0 - 20 * 24 * 60 * 60
    /\ sessions[2].EndTime = now.sec - WindowSeconds
    /\ now.nsec = 0
    /\ Len(playbackTokens) = 1
    /\ requests[MintPos[1]].idx = 2

(***************************************************************************)
(* C4: whenever the path of the playback reference has fewer than 6        *)
(* "/"-separated segments (fewer than 5 separators), the sessions request  *)
(* is never sent, no session list and no resource identifier is returned,  *)
(* and once getSessions has run the process has failed with the            *)
(* malformed-reference error.                                              *)
(***************************************************************************)
SegmentCount(path) == Cardinality({k \in DOMAIN path : path[k] = "/"}) + 1

C4_MalformedReference ==
    (~playbackURL.err /\ SegmentCount(playbackURL.Path) < 6) =>
        /\ NumRequests("getSessions") = 0
        /\ sessions = <<>>
        /\ resourceID = <<>>
        /\ pc \in {"generateToken", "getSessions", "exit"}
        /\ pc = "exit" =>
              \/ /\ FailedWith("getSessions", "malformed playback URL provided")
                 /\ Len(requests) = 1
              \/ /\ exitCode = 1
                 /\ stderr[1].stage = "generateToken"

\* A path of five segments, after a successful credential exchange.
C4_Witness ==
    /\ ~playbackURL.err
    /\ SegmentCount(playbackURL.Path) = 5
    /\ token # <<>>
    /\ FailedWith("getSessions", "malformed playback URL provided")

(***************************************************************************)
(* C5: in every successful run there are as many output URLs as minted     *)
(* tokens, and order is kept end to end: the i-th output line carries      *)
(* index i - 1 and the URL of the reply to the i-th resolution request,    *)
(* that request carries the i-th token, the i-th token is the reply to the *)
(* i-th minting request, and the minting requests follow list order.       *)
(***************************************************************************)
C5_OrderEndToEnd ==
    (pc = "exit" /\ exitCode = 0) =>
        LET mp == MintPos
            rp == ResolvePos
            out == URLOutput
        IN  /\ Len(out) = Len(playbackTokens)
            /\ Len(rp) = Len(playbackTokens)
            /\ Len(mp) = Len(playbackTokens)
            /\ \A k \in DOMAIN playbackTokens :
                  /\ out[k].n = k - 1
                  /\ out[k].text = replies[rp[k]].body.url
                  /\ requests[rp[k]].url[4] = playbackTokens[k].Token
                  /\ requests[rp[k]].url[2] = resourceID
                  /\ playbackTokens[k].Token = replies[mp[k]].body.token
            /\ \A a, b \in DOMAIN mp :
                  a < b => requests[mp[a]].idx < requests[mp[b]].idx
            /\ \A a \in DOMAIN mp : \A b \in DOMAIN rp : mp[a] < rp[b]

\* Two sessions, two different tokens, two different URLs.
C5_Witness ==
    /\ pc = "exit"
    /\ exitCode = 0
    /\ Len(URLOutput) = 2
    /\ playbackTokens[1] # playbackTokens[2]
    /\ URLOutput[1].text # URLOutput[2].text

(***************************************************************************)
(* More vocabulary: the reply to the latest request, failed replies.       *)
(***************************************************************************)
\* The latest request has been answered; its reply.
Answered == Len(replies) > 0 /\ Len(replies) = Len(requests)
LastReply == replies[Len(replies)]
LastStage == requests[Len(requests)].stage

\* A reply that makes the request fail: a transport error, a body that
\* cannot be read, a status other than 200, bytes that are no JSON.
ReplyFailed(r) == r.failed \/ ~r.readOK \/ r.status # 200 \/ ~r.body.json

\* An upstream-rejection error carrying this status and this body.
IsRejection(err, status, body) ==
    /\ err.kind = "received error from API"
    /\ err.status = status
    /\ err.body = body

\* The latest request was answered with a status other than 200, and
\* doRequest is past reading the response.
Rejected ==
    /\ Answered
    /\ ~LastReply.failed
    /\ LastReply.status # 200
    /\ rq # "read"

\* What the rejection must lead to: doRequest returns the rejection, and
\* the stage fails with it.
RejectionSurfaced ==
    \/ /\ rq = "ret"
       /\ pc # "exit"
       /\ IsRejection(ret.err, LastReply.status, LastReply.body)
    \/ /\ pc = "exit"
       /\ exitCode = 1
       /\ Len(stderr) = 1
       /\ stderr[1].stage = LastStage
       /\ IsRejection(stderr[1].err, LastReply.status, LastReply.body)

(***************************************************************************)
(* C6, as claimed: at every stage, whenever the platform answers a request *)
(* with a status other than 200, the stage fails with an upstream          *)
(* rejection carrying that status and the body unmodified.                 *)
(***************************************************************************)
C6_Original == Rejected => RejectionSurfaced

(***************************************************************************)
(* C6, amended: at every stage, whenever the platform answers a request    *)
(* with a status other than 200 and the response body is read in full, the *)
(* stage fails with an upstream rejection carrying that status and the     *)
(* body unmodified; such a response is never decoded as a success.         *)
(***************************************************************************)
C6_UpstreamRejection == (Rejected /\ LastReply.readOK) => RejectionSurfaced

\* A 500 whose body is a well-formed token object, at the minting stage.
C6_Witness ==
    /\ Rejected
    /\ LastReply.readOK
    /\ LastReply.status = 500
    /\ LastReply.body.json
    /\ LastStage = "generatePlaybackToken"
    /\ pc = "exit"

(***************************************************************************)
(* C7: once a minting request has failed (no response, unreadable body,    *)
(* non-200 status, undecodable body), it stays the last request of the     *)
(* run: no later minting request and no resolution request is issued; the  *)
(* process fails at generatePlaybackToken, main receives no token list     *)
(* and nothing is output, also when earlier sessions were minted.  The     *)
(* same holds of every other error of generatePlaybackToken.               *)
(***************************************************************************)
C7_MintFailFast ==
    /\ \A k \in DOMAIN replies :
          (requests[k].stage = "generatePlaybackToken" /\ ReplyFailed(replies[k])) =>
              /\ k = Len(requests)
              /\ NumRequests("generatePlaybackURL") = 0
              /\ playbackTokens = <<>>
              /\ URLOutput = <<>>
              /\ \/ pc = "mintLoop" /\ rq \in {"read", "ret"}
                 \/ /\ pc = "exit"
                    /\ exitCode = 1
                    /\ stderr[1].stage = "generatePlaybackToken"
    /\ (Len(stderr) > 0 /\ stderr[1].stage = "generatePlaybackToken") =>
          /\ playbackTokens = <<>>
          /\ NumRequests("generatePlaybackURL") = 0
          /\ URLOutput = <<>>
          /\ exitCode = 1

\* The second minting request fails after the first has given a token.
C7_Witness ==
    /\ pc = "exit"
    /\ Len(MintPos) = 2
    /\ ~ReplyFailed(replies[MintPos[1]])
    /\ ReplyFailed(replies[MintPos[2]])
    /\ stderr[1].stage = "generatePlaybackToken"

(***************************************************************************)
(* C8: once a resolution request has failed, it stays the last request of  *)
(* the run; the process fails at generatePlaybackURL, main receives no URL *)
(* list and no URL is output, also when earlier tokens were resolved.      *)
(***************************************************************************)
C8_ResolveFailFast ==
    /\ \A k \in DOMAIN replies :
          (requests[k].stage = "generatePlaybackURL" /\ ReplyFailed(replies[k])) =>
              /\ k = Len(requests)
              /\ playbackURLs = <<>>
              /\ URLOutput = <<>>
              /\ \/ pc = "resolveLoop" /\ rq \in {"read", "ret"}
                 \/ /\ pc = "exit"
                    /\ exitCode = 1
                    /\ stderr[1].stage = "generatePlaybackURL"
    /\ (Len(stderr) > 0 /\ stderr[1].stage = "generatePlaybackURL") =>
          /\ playbackURLs = <<>>
          /\ URLOutput = <<>>
          /\ exitCode = 1

\* The second resolution request is rejected after the first gave a URL.
C8_Witness ==
    /\ pc = "exit"
    /\ Len(ResolvePos) = 2
    /\ ~ReplyFailed(replies[ResolvePos[1]])
    /\ ~replies[ResolvePos[2]].failed
    /\ replies[ResolvePos[2]].status = 500
    /\ stderr[1].stage = "generatePlaybackURL"

(***************************************************************************)
(* C9: when the session lookup succeeds with an empty list, no minting and *)
(* no resolution request is ever issued, the run never ends in success and *)
(* outputs no URL, and once generatePlaybackToken has run the process has  *)
(* failed with the no-sessions error.                                      *)
(***************************************************************************)
EmptyListReturned ==
    \E k \in DOMAIN replies :
        /\ requests[k].stage = "getSessions"
        /\ ~ReplyFailed(replies[k])
        /\ replies[k].body.sessions = <<>>

C9_EmptyList ==
    EmptyListReturned =>
        /\ NumRequests("generatePlaybackToken") = 0
        /\ NumRequests("generatePlaybackURL") = 0
        /\ exitCode # 0
        /\ URLOutput = <<>>
        /\ pc \in {"getSessions", "generatePlaybackToken", "exit"}
        /\ pc = "exit" =>
              FailedWith("generatePlaybackToken", "no events in session, quitting")

C9_Witness ==
    /\ EmptyListReturned
    /\ sessions = <<>>
    /\ FailedWith("generatePlaybackToken", "no events in session, quitting")

(***************************************************************************)
(* C10: every error is terminal.  Once an error is logged the process has  *)
(* ended with status 1, exactly one error is logged, and from then on no   *)
(* request is issued and nothing is output; a failed request is the last   *)
(* request of the run, so none is re-issued and no later stage sends one;  *)
(* URLs are output only in runs that exit with status 0, where every       *)
(* request of the four stages was answered with success.                   *)
(***************************************************************************)
C10_State ==
    /\ Len(stderr) > 0 =>
          /\ pc = "exit"
          /\ exitCode = 1
          /\ Len(stderr) = 1
          /\ URLOutput = <<>>
    /\ \A k \in DOMAIN replies :
          ReplyFailed(replies[k]) =>
              /\ k = Len(requests)
              /\ exitCode # 0
              /\ URLOutput = <<>>
    /\ exitCode = 0 => stderr = <<>>
    /\ URLOutput # <<>> =>
          /\ pc = "exit"
          /\ exitCode = 0
          /\ NumRequests("generateToken") = 1
          /\ NumRequests("getSessions") = 1
          /\ NumRequests("generatePlaybackToken") = Len(playbackTokens)
          /\ NumRequests("generatePlaybackURL") = Len(playbackTokens)
          /\ Len(replies) = Len(requests)

C10_Step ==
    Len(stderr) > 0 => UNCHANGED <<requests, replies, stdout, stderr, exitCode, pc>>

\* C10: every error ends the process with status 1, nothing is issued or
\* output after it, and URLs are output only by runs without an error.
C10_ErrorsTerminal == []C10_State /\ [][C10_Step]_vars

\* A timeout of the second resolution request, after one URL was resolved.
C10_Witness ==
    /\ pc = "exit"
    /\ exitCode = 1
    /\ Len(ResolvePos) = 2
    /\ replies[ResolvePos[2]].failed
    /\ stderr[1].stage = "generatePlaybackURL"
    /\ stderr[1].err.kind = "error getting response"

(***************************************************************************)
(* C11: the requests of a run are, in this order, one credential exchange, *)
(* one session lookup, the minting requests in session-list order and the  *)
(* resolution requests in token order; a request is issued only when every *)
(* earlier request has returned and doRequest is done with it, so at most  *)
(* one request is in flight and no resolution request precedes a minting   *)
(* request.                                                                *)
(***************************************************************************)
StageRank(stage) ==
    CASE stage = "generateToken" -> 1
      [] stage = "getSessions" -> 2
      [] stage = "generatePlaybackToken" -> 3
      [] stage = "generatePlaybackURL" -> 4

C11_Order ==
    /\ inflight \in {0, 1}
    /\ inflight = Len(requests) - Len(replies)
    /\ inflight = 1 <=> rq = "do"
    /\ \A k \in DOMAIN requests :
          /\ k = 1 <=> requests[k].stage = "generateToken"
          /\ k = 2 <=> requests[k].stage = "getSessions"
    /\ \A a, b \in DOMAIN requests :
          a < b =>
              /\ StageRank(requests[a].stage) <= StageRank(requests[b].stage)
              /\ StageRank(requests[a].stage) = StageRank(requests[b].stage) =>
                    requests[a].idx < requests[b].idx
    /\ LET rp == ResolvePos
       IN  \A k \in DOMAIN rp :
              /\ requests[rp[k]].idx = k
              /\ requests[rp[k]].url[4] = playbackTokens[k].Token

C11_Issue ==
    requests' # requests =>
        /\ rq = "none"
        /\ inflight = 0
        /\ openBodies = 0
        /\ Len(replies) = Len(requests)
        /\ Len(requests') = Len(requests) + 1
        /\ SubSeq(requests', 1, Len(requests)) = requests

\* C11: the order of the requests of a run, one at a time.
C11_Sequential == []C11_Order /\ [][C11_Issue]_vars

\* The second resolution request is in flight: it follows the credential
\* exchange, the lookup and two minting requests, all of them answered.
C11_Witness ==
    /\ Len(requests) = 6
    /\ inflight = 1
    /\ Len(replies) = 5
    /\ requests[6].stage = "generatePlaybackURL"
    /\ requests[6].idx = 2
    /\ playbackTokens[1] # playbackTokens[2]

(***************************************************************************)
(* C12: on every way out of doRequest the response body is closed before   *)
(* doRequest returns: a body is open only while doRequest reads it, never  *)
(* more than one is open, and none is open when a request is issued, when  *)
(* a stage handles a result or when the process ends.                      *)
(***************************************************************************)
C12_Open ==
    /\ openBodies \in {0, 1}
    /\ openBodies = 1 <=> rq = "read"
    /\ rq \in {"none", "do", "ret"} => openBodies = 0
    /\ pc = "exit" => openBodies = 0

C12_Return ==
    /\ (rq = "read" /\ rq' = "ret") => (openBodies = 1 /\ openBodies' = 0)
    /\ requests' # requests => openBodies = 0 /\ openBodies' = 0

\* C12: every response body is closed when doRequest returns.
C12_BodiesClosed == []C12_Open /\ [][C12_Return]_vars

\* doRequest has returned from a failed body read of a minting response
\* with a status other than 200, and the body is closed.
C12_Witness ==
    /\ rq = "ret"
    /\ pc = "mintLoop"
    /\ ret.err.kind = "error reading body"
    /\ replies[Len(replies)].status = 500
    /\ openBodies = 0

(***************************************************************************)
(* C13: every minting request of a run targets the endpoint made of the    *)
(* account id and the resource id of the first session of the list, also   *)
(* when the first session is skipped as out of the window and when the     *)
(* session the request is for carries other ids; the endpoint the loop     *)
(* uses never changes during the loop.                                     *)
(***************************************************************************)
FirstSessionEndpoint ==
    <<<<"https://api.live.brightcove.com/v2/accounts/">>, sessions[1].AccountID,
      <<"/playback/">>, sessions[1].ResourceID, <<"/token">>>>

C13_Endpoint ==
    /\ \A k \in DOMAIN requests :
          requests[k].stage = "generatePlaybackToken" =>
              requests[k].url = FirstSessionEndpoint
    /\ pc = "mintLoop" => mintURL = FirstSessionEndpoint

\* The first session is skipped, the second carries other ids and is the
\* one the request is for.
C13_Witness ==
    /\ Len(sessions) = 2
    /\ sessions[1].EndTime = Now0 - 20 * 24 * 60 * 60
    /\ sessions[2].AccountID # sessions[1].AccountID
    /\ sessions[2].ResourceID # sessions[1].ResourceID
    /\ Len(MintPos) = 1
    /\ requests[MintPos[1]].idx = 2
    /\ requests[MintPos[1]].url[2] = sessions[1].AccountID
    /\ requests[MintPos[1]].url[4] = sessions[1].ResourceID

(***************************************************************************)
(* Minted tokens: the minting requests answered with success, in order.    *)
(***************************************************************************)
RECURSIVE MintedFrom(_)
MintedFrom(k) ==
    IF k > Len(replies) THEN <<>>
    ELSE IF requests[k].stage = "generatePlaybackToken" /\ ~ReplyFailed(replies[k])
         THEN <<replies[k].body.token>> \o MintedFrom(k + 1)
         ELSE MintedFrom(k + 1)

Minted == MintedFrom(1)

\* The resolution requests that are for the j-th minted token.
ConsumersOf(j) == {p \in DOMAIN requests :
                      requests[p].stage = "generatePlaybackURL" /\ requests[p].idx = j}

(***************************************************************************)
(* C14, as claimed: every token minted in a run is the token parameter of  *)
(* exactly one resolution request by the end of the run.                   *)
(***************************************************************************)
C14_Original ==
    pc = "exit" =>
        \A j \in DOMAIN Minted : Cardinality(ConsumersOf(j)) = 1

(***************************************************************************)
(* C14, amended: every token minted in a run is the token parameter of at  *)
(* most one resolution request, every resolution request carries the       *)
(* minted token of its position, and in every run that ends in success     *)
(* every minted token is the parameter of exactly one resolution request.  *)
(***************************************************************************)
C14_ConsumedOnce ==
    LET minted == Minted
    IN  /\ \A j \in DOMAIN minted : Cardinality(ConsumersOf(j)) <= 1
        /\ \A p \in DOMAIN requests :
              requests[p].stage = "generatePlaybackURL" =>
                  /\ requests[p].idx \in DOMAIN minted
                  /\ requests[p].url[4] = minted[requests[p].idx]
        /\ (pc = "exit" /\ exitCode = 0) =>
              \A j \in DOMAIN minted : Cardinality(ConsumersOf(j)) = 1

\* A successful run whose second token differs from its first.
C14_Witness ==
    /\ pc = "exit"
    /\ exitCode = 0
    /\ Len(Minted) = 2
    /\ Minted[1] = <<"t2">>
    /\ Minted[2] = <<"t1">>
    /\ Cardinality(ConsumersOf(1)) = 1
    /\ Cardinality(ConsumersOf(2)) = 1

(***************************************************************************)
(* C15: if every issued request returns, every run ends, with the URL      *)
(* output or with a failure exit; a run issues at most one minting request *)
(* per session and at most one resolution request per minted token, hence  *)
(* at most 2 + 2n requests for a list of n sessions.                       *)
(***************************************************************************)
C15_Terminated ==
    /\ pc = "exit"
    /\ exitCode \in {0, 1}
    /\ exitCode = 0 <=> stderr = <<>>
    /\ inflight = 0

C15_Budget ==
    /\ Len(requests) <= 2 + 2 * Len(sessions)
    /\ NumRequests("generateToken") <= 1
    /\ NumRequests("getSessions") <= 1
    /\ \A i \in DOMAIN sessions :
          Cardinality({p \in DOMAIN requests :
                          /\ requests[p].stage = "generatePlaybackToken"
                          /\ requests[p].idx = i}) <= 1
    /\ \A p \in DOMAIN requests :
          requests[p].stage = "generatePlaybackToken" =>
              requests[p].idx \in DOMAIN sessions
    /\ LET minted == Minted
       IN  /\ NumRequests("generatePlaybackURL") <= Len(minted)
           /\ \A j \in DOMAIN minted : Cardinality(ConsumersOf(j)) <= 1

\* C15: every run ends, within its budget of requests.
C15_Termination == <>C15_Terminated /\ []C15_Budget

\* A run of the longest list that spent its whole budget.
C15_Witness ==
    /\ pc = "exit"
    /\ Len(sessions) = MaxSessions
    /\ Len(requests) = 2 + 2 * Len(sessions)

(***************************************************************************)
(* C16: every sessions request carries a non-empty account identifier and  *)
(* a non-empty resource identifier in its URL, and the resource identifier *)
(* that getSessions returns is not empty.  The code checks the number of   *)
(* segments only, so this fails on a path with empty segments.             *)
(***************************************************************************)
\* getSessions has returned its results to main.
SessionsReturned ==
    \/ pc \in {"generatePlaybackToken", "mintLoop", "resolveLoop", "print"}
    \/ /\ pc = "exit"
       /\ NumRequests("getSessions") = 1
       /\ stderr = <<>> \/ stderr[1].stage \in {"generatePlaybackToken", "generatePlaybackURL"}

C16_NonEmptyIds ==
    /\ \A k \in DOMAIN requests :
          requests[k].stage = "getSessions" =>
              /\ requests[k].url[2] # <<>>
              /\ requests[k].url[4] # <<>>
    /\ SessionsReturned => resourceID # <<>>

====
